---- MODULE Spec2Model ----
(***************************************************************************)
(* SAMSIM server (src/server/samsim_server.py): the shared state store,    *)
(* the UDP ingestion of simulation datagrams, the WebSocket client         *)
(* registry and handlers, the broadcast loop and the HTTP query handlers,  *)
(* as one state machine.  All coroutines run on one asyncio event loop, so *)
(* the code between two awaits is one atomic step; every await is a point  *)
(* where the other activities may run.                                     *)
(***************************************************************************)
EXTENDS Integers, Sequences, FiniteSets, TLC

\* ------------------------------------------------------------------------
\* Bounds of the model
\* ------------------------------------------------------------------------

\* number of inputs taken in one run: datagrams, messages of WebSocket
\* clients, HTTP requests and rounds of the broadcast loop
MaxEvents == 3

\* ------------------------------------------------------------------------
\* Python values
\* ------------------------------------------------------------------------

\* Python's None (also JSON null)
NONE == "None"

\* A Python dict with insertion order: a sequence of <<key, value>> pairs
\* with distinct keys.
Keys(d) == {d[i][1] : i \in DOMAIN d}

Has(d, k) == \E i \in DOMAIN d : d[i][1] = k

Lookup(d, k) == d[CHOOSE i \in DOMAIN d : d[i][1] = k][2]

\* d[k] = v : an existing key keeps its place, a new key goes last
Put(d, k, v) ==
    IF Has(d, k)
    THEN [i \in DOMAIN d |-> IF d[i][1] = k THEN <<k, v>> ELSE d[i]]
    ELSE Append(d, <<k, v>>)

\* dict.get(k, default) of a decoded JSON object whose keys are field names
Get(obj, k, default) == IF k \in DOMAIN obj THEN obj[k] ELSE default

\* ------------------------------------------------------------------------
\* SAMSiteState
\* ------------------------------------------------------------------------

\* SAMSiteState(site_id=site_id): the dataclass defaults
SAMSiteState(site_id) ==
    [site_id            |-> site_id,
     system_state       |-> 0,
     radar_mode         |-> 0,
     antenna_az         |-> 0,
     antenna_el         |-> 5,
     targets            |-> <<>>,
     tracked_target     |-> NONE,
     track_quality      |-> 0,
     missiles_ready     |-> 6,
     missiles_in_flight |-> 0,
     engagement_auth    |-> FALSE,
     auto_engage        |-> FALSE]

\* ------------------------------------------------------------------------
\* Decoded JSON values.  A value whose Python type the code depends on is
\* tagged: t = "dict" for a JSON object, anything else for a value that has
\* no .get / .items (a list, a number, a string).
\* ------------------------------------------------------------------------

\* a JSON object whose members are given in document order
Dict(items) == [t |-> "dict", v |-> items]

\* a JSON value that is not an object
NotDict == [t |-> "list", v |-> <<>>]

\* message.get('sites', {}) when the key is missing
EmptyDict == Dict(<<>>)

\* ------------------------------------------------------------------------
\* The shared state store, as the value of the five attributes
\* ------------------------------------------------------------------------

\* SAMSIMServer.__init__: the store after construction
InitStore ==
    [dcs_connected |-> FALSE,
     mission_time  |-> 0,
     paused        |-> FALSE,
     sites         |-> <<>>,
     world_objects |-> <<>>]

\* UpdateSite as a merge: a field the entry omits keeps its old value
UpdateSite_Merge(site, site_data) ==
    [site EXCEPT
        !.system_state       = Get(site_data, "systemState", @),
        !.radar_mode         = Get(site_data, "radarMode", @),
        !.antenna_az         = Get(site_data, "antennaAz", @),
        !.antenna_el         = Get(site_data, "antennaEl", @),
        !.targets            = Get(site_data, "targets", @),
        !.tracked_target     = Get(site_data, "tracked", @),
        !.track_quality      = Get(site_data, "trackQuality", @),
        !.missiles_ready     = Get(site_data, "missilesReady", @),
        !.missiles_in_flight = Get(site_data, "missilesInFlight", @),
        !.engagement_auth    = Get(site_data, "engAuth", @),
        !.auto_engage        = Get(site_data, "autoEng", @)]

\* the body of the for loop for one site that is a JSON object: every field
\* is assigned, from the entry or from the default of its .get
UpdateSite(site, site_data) ==
    [site EXCEPT
        !.system_state       = Get(site_data, "systemState", 0),
        !.radar_mode         = Get(site_data, "radarMode", 0),
        !.antenna_az         = Get(site_data, "antennaAz", 0),
        !.antenna_el         = Get(site_data, "antennaEl", 5),
        !.targets            = Get(site_data, "targets", <<>>),
        !.tracked_target     = Get(site_data, "tracked", NONE),
        !.track_quality      = Get(site_data, "trackQuality", 0),
        !.missiles_ready     = Get(site_data, "missilesReady", 6),
        !.missiles_in_flight = Get(site_data, "missilesInFlight", 0),
        !.engagement_auth    = Get(site_data, "engAuth", FALSE),
        !.auto_engage        = Get(site_data, "autoEng", FALSE)]

\* for site_id, site_data in sites_data.items(): the record is created when
\* missing, then site_data.get raises on an entry that is not an object and
\* the loop ends there, with what was assigned so far kept
RECURSIVE UpdateSites(_, _)
UpdateSites(sites, items) ==
    IF items = <<>>
    THEN sites
    ELSE LET site_id   == Head(items)[1]
             site_data == Head(items)[2]
             created   == IF Has(sites, site_id)
                          THEN sites
                          ELSE Put(sites, site_id, SAMSiteState(site_id))
         IN  IF site_data.t # "dict"
             THEN created
             ELSE UpdateSites(
                      Put(created, site_id,
                          UpdateSite(Lookup(created, site_id), site_data.v)),
                      Tail(items))

\* ProcessStatus with the mapping rebuilt from the update: a site the
\* update omits is dropped
ProcessStatus_Replace(st, message) ==
    LET st1 == [st EXCEPT
                   !.dcs_connected = TRUE,
                   !.mission_time  = Get(message, "time", 0),
                   !.paused        = Get(message, "paused", FALSE),
                   !.world_objects = Get(message, "worldObjects", <<>>)]
        sites_data == Get(message, "sites", EmptyDict)
    IN  IF sites_data.t # "dict"
        THEN st1
        ELSE [st1 EXCEPT !.sites = UpdateSites(<<>>, sites_data.v)]

\* the 'status' branch: the four scalar assignments, then the loop over the
\* sites; sites_data.items() raises when sites is not an object
ProcessStatus(st, message) ==
    LET st1 == [st EXCEPT
                   !.dcs_connected = TRUE,
                   !.mission_time  = Get(message, "time", 0),
                   !.paused        = Get(message, "paused", FALSE),
                   !.world_objects = Get(message, "worldObjects", <<>>)]
        sites_data == Get(message, "sites", EmptyDict)
    IN  IF sites_data.t # "dict"
        THEN st1
        ELSE [st1 EXCEPT !.sites = UpdateSites(st.sites, sites_data.v)]

\* ProcessDcsData with a shutdown that also resets the mission clock and the
\* pause flag
ProcessDcsData_Reset(st, data) ==
    IF data.json # "object"
    THEN st
    ELSE LET message  == data.obj
             msg_type == Get(message, "type", "")
         IN  CASE msg_type = "init"     -> [st EXCEPT !.dcs_connected = TRUE]
               [] msg_type = "shutdown" -> [st EXCEPT !.dcs_connected = FALSE,
                                                      !.mission_time = 0,
                                                      !.paused = FALSE]
               [] msg_type = "status"   -> ProcessStatus(st, message)
               [] OTHER                 -> st

\* ProcessDcsData with a message of any other type taken as a sign of life
\* of the simulation
ProcessDcsData_Alive(st, data) ==
    IF data.json # "object"
    THEN st
    ELSE LET message  == data.obj
             msg_type == Get(message, "type", "")
         IN  CASE msg_type = "init"     -> [st EXCEPT !.dcs_connected = TRUE]
               [] msg_type = "shutdown" -> [st EXCEPT !.dcs_connected = FALSE]
               [] msg_type = "status"   -> ProcessStatus(st, message)
               [] OTHER                 -> [st EXCEPT !.dcs_connected = TRUE]

\* ProcessDcsData with a payload that does not decode taken as the loss of
\* the simulation
ProcessDcsData_Drop(st, data) ==
    IF data.json # "object"
    THEN [st EXCEPT !.dcs_connected = FALSE]
    ELSE LET message  == data.obj
             msg_type == Get(message, "type", "")
         IN  CASE msg_type = "init"     -> [st EXCEPT !.dcs_connected = TRUE]
               [] msg_type = "shutdown" -> [st EXCEPT !.dcs_connected = FALSE]
               [] msg_type = "status"   -> ProcessStatus(st, message)
               [] OTHER                 -> st

\* _process_dcs_data: json.loads fails on an undecodable payload, and
\* message.get fails on JSON that is not an object; both are caught and
\* logged.  Otherwise the branch of the discriminator is taken.
ProcessDcsData(st, data) ==
    IF data.json # "object"
    THEN st
    ELSE LET message  == data.obj
             msg_type == Get(message, "type", "")
         IN  CASE msg_type = "init"     -> [st EXCEPT !.dcs_connected = TRUE]
               [] msg_type = "shutdown" -> [st EXCEPT !.dcs_connected = FALSE]
               [] msg_type = "status"   -> ProcessStatus(st, message)
               [] OTHER                 -> st

\* ------------------------------------------------------------------------
\* Datagrams the simulation may send
\* ------------------------------------------------------------------------

\* a payload that decodes to the JSON object obj
Object(obj) == [json |-> "object", obj |-> obj]

\* b"not json": json.loads raises JSONDecodeError
DgInvalid == [json |-> "invalid", obj |-> <<>>]

\* b"[1]": decodes, but a list has no .get
DgArray == [json |-> "array", obj |-> <<>>]

DgInit == Object([type |-> "init"])

DgShutdown == Object([type |-> "shutdown"])

DgResponse == Object([type |-> "response"])

\* {} : no type at all
DgNoType == Object(<<>>)

\* {"type":"telemetry"}: a type the server does not know
DgUnknown == Object([type |-> "telemetry"])

\* a site entry that names two of the eleven fields
SitePartial == [systemState |-> 2, radarMode |-> 1]

\* a site entry that names every field, none with its default value
SiteFull ==
    [systemState |-> 3, radarMode |-> 2, antennaAz |-> 90, antennaEl |-> 45,
     targets |-> <<"T1">>, tracked |-> "T1", trackQuality |-> 80,
     missilesReady |-> 4, missilesInFlight |-> 2,
     engAuth |-> TRUE, autoEng |-> TRUE]

\* {"type":"status","time":42,"paused":false,
\*  "sites":{"S1":{"systemState":2,"radarMode":1}}}
DgStatus1 ==
    Object([type |-> "status", time |-> 42, paused |-> FALSE,
            sites |-> Dict(<< <<"S1", Dict(SitePartial)>> >>)])

\* every key present, two sites, the second with no field
DgStatus2 ==
    Object([type |-> "status", time |-> 43, paused |-> TRUE,
            worldObjects |-> <<"W1">>,
            sites |-> Dict(<< <<"S1", Dict(SiteFull)>>,
                              <<"S2", Dict(<<>>)>> >>)])

\* {"type":"status"}
DgStatusBare == Object([type |-> "status"])

\* {"type":"status","time":44,"paused":true,"sites":{"S2":{...},"S1":7}}
DgStatusBadEntry ==
    Object([type |-> "status", time |-> 44, paused |-> TRUE,
            sites |-> Dict(<< <<"S2", Dict(SitePartial)>>,
                              <<"S1", NotDict>> >>)])

\* {"type":"status","time":45,"sites":[1]}
DgStatusBadSites ==
    Object([type |-> "status", time |-> 45, sites |-> NotDict])

Datagrams ==
    {DgInvalid, DgArray, DgInit, DgShutdown, DgResponse, DgNoType, DgUnknown,
     DgStatus1, DgStatus2, DgStatusBare, DgStatusBadEntry, DgStatusBadSites}

\* ------------------------------------------------------------------------
\* Payloads sent to the WebSocket clients and replies of the HTTP handlers
\* ------------------------------------------------------------------------

\* one entry of the 'sites' comprehension: the record under its JSON names
SiteProjection(site) ==
    [siteId           |-> site.site_id,
     systemState      |-> site.system_state,
     radarMode        |-> site.radar_mode,
     antennaAz        |-> site.antenna_az,
     antennaEl        |-> site.antenna_el,
     targets          |-> site.targets,
     tracked          |-> site.tracked_target,
     trackQuality     |-> site.track_quality,
     missilesReady    |-> site.missiles_ready,
     missilesInFlight |-> site.missiles_in_flight,
     engAuth          |-> site.engagement_auth,
     autoEng          |-> site.auto_engage]

\* the dict built under the lock: 'update' in the broadcast loop, 'state'
\* in _send_state_to_client
BuildState(st, type) ==
    [type         |-> type,
     dcsConnected |-> st.dcs_connected,
     missionTime  |-> st.mission_time,
     paused       |-> st.paused,
     sites        |-> [i \in DOMAIN st.sites |->
                         <<st.sites[i][1], SiteProjection(st.sites[i][2])>>],
     worldObjects |-> st.world_objects]

\* json.dumps writes a None key as null
JsonKey(k) == IF k = NONE THEN "null" ELSE k

\* json.dumps(state): the members in dict order, the keys as JSON strings
JsonDumps(state) ==
    [state EXCEPT
        !.sites = [i \in DOMAIN @ |-> <<JsonKey(@[i][1]), @[i][2]>>]]

\* AckPayload that does not name the command
AckPayload_Unnamed(command) == [type |-> "ack", command |-> NONE]

\* json.dumps({'type': 'ack', 'command': command.get('cmd')})
AckPayload(command) == [type |-> "ack", command |-> Get(command, "cmd", NONE)]

\* no payload
NoPayload == [type |-> "none"]

\* list(self.sites.keys())
SiteKeyList(st) == [i \in DOMAIN st.sites |-> st.sites[i][1]]

\* StatusReply that lists the sites only while the simulation is connected
StatusReply_Connected(st) ==
    [dcsConnected |-> st.dcs_connected,
     missionTime  |-> st.mission_time,
     paused       |-> st.paused,
     sites        |-> IF st.dcs_connected THEN SiteKeyList(st) ELSE <<>>]

\* _api_status: the reduced projection
StatusReply(st) ==
    [dcsConnected |-> st.dcs_connected,
     missionTime  |-> st.mission_time,
     paused       |-> st.paused,
     sites        |-> SiteKeyList(st)]

\* _api_command: what is returned after send_to_dcs(data) has returned.
\* send_to_dcs catches every exception of its sendto and returns nothing, so
\* the outcome of the send never reaches this handler.
CommandReply == [success |-> TRUE]

\* _api_command: request.json() raised
CommandError == [success |-> FALSE, error |-> "json"]

\* ------------------------------------------------------------------------
\* Messages of the WebSocket clients and commands
\* ------------------------------------------------------------------------

\* the connection handles that may be accepted, in the order of their accept
Clients == {1, 2}

\* command objects a client or an HTTP caller may submit
Commands == {[cmd |-> "launch"], <<>>}

\* siteId of an init_site message; NONE when the message carries none
InitSiteIds == {"S1", NONE}

\* the command object _handle_ws_message builds for init_site
InitSiteCommand(site_id, group_name) ==
    [cmd |-> "init_site", siteId |-> site_id,
     params |-> [groupName |-> group_name]]

\* InitSite as a reset: an existing record is replaced by a new one
InitSite_Reset(sts, site_id) == Put(sts, site_id, SAMSiteState(site_id))

\* the 'init_site' branch under the lock
InitSite(sts, site_id) ==
    IF Has(sts, site_id) THEN sts ELSE Put(sts, site_id, SAMSiteState(site_id))

\* ------------------------------------------------------------------------
\* State
\* ------------------------------------------------------------------------

VARIABLES
    dcs_connected,   \* self.dcs_connected
    mission_time,    \* self.mission_time
    paused,          \* self.paused
    sites,           \* self.sites
    world_objects,   \* self.world_objects
    ws_clients,      \* self.ws_clients
    state_lock,      \* self.state_lock: "free", or the activity that holds it
    handler,         \* per connection: where its handler coroutine stands
    pending,         \* per connection: the payload of its awaited direct send
    bpc,             \* _broadcast_loop: where it stands
    message,         \* _broadcast_loop: the serialized payload of the tick
    client,          \* _broadcast_loop: the client of the awaited send
    iter,            \* _broadcast_loop: the iterator over self.ws_clients
    dead_clients,    \* _broadcast_loop: dead_clients
    tick,            \* what the current tick started from and has done
    event,           \* the last step: its input and what it sent or replied
    n_events         \* how many inputs were taken

store_vars == <<dcs_connected, mission_time, paused, sites, world_objects>>

ws_vars == <<handler, pending>>

loop_vars == <<bpc, message, client, iter, dead_clients, tick>>

vars == <<dcs_connected, mission_time, paused, sites, world_objects,
          ws_clients, state_lock, handler, pending, bpc, message, client, iter,
          dead_clients, tick, event, n_events>>

\* the store as one value
Store ==
    [dcs_connected |-> dcs_connected,
     mission_time  |-> mission_time,
     paused        |-> paused,
     sites         |-> sites,
     world_objects |-> world_objects]

\* the five attributes take the values of st
SetStore(st) ==
    /\ dcs_connected' = st.dcs_connected
    /\ mission_time'  = st.mission_time
    /\ paused'        = st.paused
    /\ sites'         = st.sites
    /\ world_objects' = st.world_objects

\* threading.Lock.acquire: the caller becomes the holder
Acquire(lock, owner) == owner

\* Release with the lock kept over the await that follows the block
Release_AfterAwait(lock, owner) == lock

\* threading.Lock.release at the end of a with block
Release(lock, owner) == IF lock = owner THEN "free" ELSE lock

\* with self.state_lock: acquire blocks the thread of the event loop until
\* the lock is free; the block holds no await, and the lock is released when
\* the block is left, also by an exception, before the step reaches its
\* next await
WithStateLock(owner) ==
    /\ state_lock = "free"
    /\ state_lock' = Release(Acquire(state_lock, owner), owner)

\* asyncio.run ends, and the process with it, when a coroutine of the
\* gather raises: nothing runs after the broadcast loop has raised
Alive == bpc # "crashed"

\* the set iterator of the for loop: the size of the set when it was made,
\* the clients it has yielded, and whether the set was changed since
NewIter(registry) ==
    [used |-> Cardinality(registry), seen |-> {}, dirty |-> FALSE]

\* what a tick started from (the store and the registry at its snapshot) and
\* what its sends have done so far
NewTick(st, registry) ==
    [store |-> st, registry |-> registry, tried |-> {}, failed |-> {},
     sent |-> <<>>]

\* no datagram, no sendto, no send to a client
NoData == [json |-> "none", obj |-> <<>>]

NoSendto == [called |-> FALSE, data |-> <<>>, ok |-> TRUE]

NoWsSend == [to |-> 0, msg |-> NoPayload, ok |-> TRUE]

\* a step named op that takes no datagram and sends nothing
Event(op) ==
    [op |-> op, data |-> NoData, sendto |-> NoSendto, ws |-> NoWsSend,
     response |-> NoPayload]

\* send_to_dcs(command): one sendto, which succeeds or raises; the
\* exception is caught and logged, and nothing is returned
SendToDcs(command, ok) == [called |-> TRUE, data |-> command, ok |-> ok]

Init ==
    /\ dcs_connected = InitStore.dcs_connected
    /\ mission_time = InitStore.mission_time
    /\ paused = InitStore.paused
    /\ sites = InitStore.sites
    /\ world_objects = InitStore.world_objects
    /\ ws_clients = {}
    /\ state_lock = "free"
    /\ handler = [c \in Clients |-> "new"]
    /\ pending = [c \in Clients |-> NoPayload]
    /\ bpc = "sleep"
    /\ message = NoPayload
    /\ client = 0
    /\ iter = NewIter({})
    /\ dead_clients = {}
    /\ tick = NewTick(InitStore, {})
    /\ event = Event("start")
    /\ n_events = 0

\* a change of self.ws_clients is seen by a live iterator of the tick
Touch(it) == IF bpc = "send" THEN [it EXCEPT !.dirty = TRUE] ELSE it

\* one more input is taken
Input ==
    /\ Alive
    /\ n_events < MaxEvents
    /\ n_events' = n_events + 1

\* --------------------------------------------------------------- ingestion

\* _run_udp_receiver: one round of the loop that received the datagram d
UdpReceive(d) ==
    /\ Input
    /\ IF d.json = "object"
       THEN WithStateLock("_process_dcs_data")
       ELSE UNCHANGED state_lock
    /\ SetStore(ProcessDcsData(Store, d))
    /\ event' = [Event("UdpReceive") EXCEPT !.data = d]
    /\ UNCHANGED <<ws_clients, ws_vars, loop_vars>>

\* ---------------------------------------------------- WebSocket connections

\* handler: a connection is accepted and registered
WsConnect(c) ==
    /\ Alive
    /\ handler[c] = "new"
    /\ \A b \in Clients : b < c => handler[b] # "new"
    /\ ws_clients' = ws_clients \cup {c}
    /\ handler' = [handler EXCEPT ![c] = "recv"]
    /\ iter' = Touch(iter)
    /\ event' = Event("WsConnect")
    /\ UNCHANGED <<store_vars, state_lock, pending, bpc, message, client, dead_clients,
                   tick, n_events>>

\* handler: the message loop ends (the connection closed) and the finally
\* block discards the connection
WsDisconnect(c) ==
    /\ Alive
    /\ handler[c] = "recv"
    /\ ws_clients' = ws_clients \ {c}
    /\ handler' = [handler EXCEPT ![c] = "done"]
    /\ iter' = IF c \in ws_clients THEN Touch(iter) ELSE iter
    /\ event' = Event("WsDisconnect")
    /\ UNCHANGED <<store_vars, state_lock, pending, bpc, message, client, dead_clients,
                   tick, n_events>>

\* _handle_ws_message, 'command': forwarded, then the ack send is awaited
WsCommand(c, command, ok) ==
    /\ Input
    /\ handler[c] = "recv"
    /\ pending' = [pending EXCEPT ![c] = AckPayload(command)]
    /\ handler' = [handler EXCEPT ![c] = "ack"]
    /\ event' = [Event("WsCommand") EXCEPT !.sendto = SendToDcs(command, ok)]
    /\ UNCHANGED <<store_vars, ws_clients, state_lock, loop_vars>>

\* _handle_ws_message, 'init_site': forwarded, then the local record
WsInitSite(c, site_id, ok) ==
    /\ Input
    /\ handler[c] = "recv"
    /\ WithStateLock("_handle_ws_message")
    /\ sites' = InitSite(sites, site_id)
    /\ event' = [Event("WsInitSite") EXCEPT
                    !.sendto = SendToDcs(InitSiteCommand(site_id, "G1"), ok)]
    /\ UNCHANGED <<dcs_connected, mission_time, paused, world_objects,
                   ws_clients, ws_vars, loop_vars>>

\* _handle_ws_message, 'get_state': _send_state_to_client builds and
\* serializes the state, then its send is awaited
WsGetState(c) ==
    /\ Input
    /\ handler[c] = "recv"
    /\ WithStateLock("_send_state_to_client")
    /\ pending' = [pending EXCEPT ![c] = JsonDumps(BuildState(Store, "state"))]
    /\ handler' = [handler EXCEPT ![c] = "state"]
    /\ event' = Event("WsGetState")
    /\ UNCHANGED <<store_vars, ws_clients, loop_vars>>

\* _handle_ws_message: a message that is not JSON, or of no known type
WsOther(c) ==
    /\ Input
    /\ handler[c] = "recv"
    /\ event' = Event("WsOther")
    /\ UNCHANGED <<store_vars, ws_clients, state_lock, ws_vars, loop_vars>>

\* WsSendDone that registers again a connection whose direct send went well
WsSendDone_Register(c, ok) ==
    /\ Alive
    /\ handler[c] \in {"ack", "state"}
    /\ pending' = [pending EXCEPT ![c] = NoPayload]
    /\ handler' = [handler EXCEPT ![c] = "recv"]
    /\ ws_clients' = IF ok THEN ws_clients \cup {c} ELSE ws_clients
    /\ event' = [Event("WsSendDone") EXCEPT
                    !.ws = [to |-> c, msg |-> pending[c], ok |-> ok]]
    /\ UNCHANGED <<store_vars, state_lock, loop_vars, n_events>>

\* the awaited websocket.send of an ack or of a state returns or raises; the
\* except clauses of _send_state_to_client and of _handle_ws_message only
\* log, and the handler goes back to its message loop
WsSendDone(c, ok) ==
    /\ Alive
    /\ handler[c] \in {"ack", "state"}
    /\ pending' = [pending EXCEPT ![c] = NoPayload]
    /\ handler' = [handler EXCEPT ![c] = "recv"]
    /\ event' = [Event("WsSendDone") EXCEPT
                    !.ws = [to |-> c, msg |-> pending[c], ok |-> ok]]
    /\ UNCHANGED <<store_vars, ws_clients, state_lock, loop_vars, n_events>>

\* ------------------------------------------------------------ broadcast loop

\* next() of the set iterator.  It raises RuntimeError when the size of the
\* set differs from the size it was made with.  On an unchanged set it
\* yields a member not yet yielded, or stops.  On a set changed back to the
\* same size the slots it scans are not those it started on: it may yield
\* any member, or stop.
IterNext(it, registry) ==
    IF Cardinality(registry) # it.used
    THEN {[next |-> "RuntimeError", c |-> 0]}
    ELSE IF it.dirty
         THEN {[next |-> "yield", c |-> c] : c \in registry}
              \cup {[next |-> "StopIteration", c |-> 0]}
         ELSE IF registry \ it.seen = {}
              THEN {[next |-> "StopIteration", c |-> 0]}
              ELSE {[next |-> "yield", c |-> c] : c \in registry \ it.seen}

\* self.ws_clients -= dead_clients
Prune(registry, dead) == registry \ dead

\* TickPayload with the snapshot taken anew for every send
TickPayload_Fresh(msg) == JsonDumps(BuildState(Store, "update"))

\* TickPayload whose world object list is the list the store holds now
TickPayload_Alias(msg) == [msg EXCEPT !.worldObjects = world_objects]

\* the payload handed to client.send: the one serialized before the loop
TickPayload(msg) == msg

\* a round of the loop that finds the registry empty only sleeps
BroadcastIdle ==
    /\ Input
    /\ bpc = "sleep"
    /\ ws_clients = {}
    /\ event' = Event("BroadcastIdle")
    /\ UNCHANGED <<store_vars, ws_clients, state_lock, ws_vars, loop_vars>>

\* BroadcastTick with the payload serialized by the first tick and sent
\* again by every later one
BroadcastTick_Cached(c) ==
    /\ Input
    /\ bpc = "sleep"
    /\ c \in ws_clients
    /\ WithStateLock("_broadcast_loop")
    /\ message' = IF message = NoPayload
                  THEN JsonDumps(BuildState(Store, "update"))
                  ELSE message
    /\ dead_clients' = {}
    /\ iter' = [NewIter(ws_clients) EXCEPT !.seen = {c}]
    /\ client' = c
    /\ bpc' = "send"
    /\ tick' = NewTick(Store, ws_clients)
    /\ event' = Event("BroadcastTick")
    /\ UNCHANGED <<store_vars, ws_clients, ws_vars>>

\* a tick starts: the snapshot under the lock, json.dumps, dead_clients,
\* the iterator and its first client, whose send is then awaited
BroadcastTick(c) ==
    /\ Input
    /\ bpc = "sleep"
    /\ c \in ws_clients
    /\ WithStateLock("_broadcast_loop")
    /\ message' = JsonDumps(BuildState(Store, "update"))
    /\ dead_clients' = {}
    /\ iter' = [NewIter(ws_clients) EXCEPT !.seen = {c}]
    /\ client' = c
    /\ bpc' = "send"
    /\ tick' = NewTick(Store, ws_clients)
    /\ event' = Event("BroadcastTick")
    /\ UNCHANGED <<store_vars, ws_clients, ws_vars>>

\* the awaited client.send returns (ok) or raises: a send on a connection
\* that has closed raises; the except clause collects the client
SendResult(ok) ==
    /\ Alive
    /\ bpc = "send"
    /\ ok => handler[client] # "done"
    /\ dead_clients' = IF ok THEN dead_clients ELSE dead_clients \cup {client}
    /\ tick' = [tick EXCEPT
                   !.tried  = @ \cup {client},
                   !.failed = IF ok THEN @ ELSE @ \cup {client},
                   !.sent   = IF ok
                              THEN (client :> TickPayload(message)) @@ @
                              ELSE @]
    /\ event' = [Event("BroadcastSend") EXCEPT
                    !.ws = [to |-> client, msg |-> TickPayload(message),
                            ok |-> ok]]

\* the send is over and the for loop goes on to its next client
BroadcastNext(ok, c) ==
    /\ SendResult(ok)
    /\ [next |-> "yield", c |-> c] \in IterNext(iter, ws_clients)
    /\ client' = c
    /\ iter' = [iter EXCEPT !.seen = @ \cup {c}]
    /\ UNCHANGED <<store_vars, ws_clients, state_lock, ws_vars, bpc, message,
                   n_events>>

\* the send is over and the for loop ends: the dead clients are removed
\* and the loop sleeps
BroadcastEnd(ok) ==
    /\ SendResult(ok)
    /\ [next |-> "StopIteration", c |-> 0] \in IterNext(iter, ws_clients)
    /\ ws_clients' = Prune(ws_clients, dead_clients')
    /\ bpc' = "sleep"
    /\ UNCHANGED <<store_vars, state_lock, ws_vars, message, client, iter,
                   n_events>>

\* the send is over and the for statement raises RuntimeError (Set changed
\* size during iteration): it is outside the try, so _broadcast_loop
\* raises, the gather of start() raises and asyncio.run ends
BroadcastRaise(ok) ==
    /\ SendResult(ok)
    /\ [next |-> "RuntimeError", c |-> 0] \in IterNext(iter, ws_clients)
    /\ bpc' = "crashed"
    /\ UNCHANGED <<store_vars, ws_clients, state_lock, ws_vars, message,
                   client, iter, n_events>>

\* ------------------------------------------------------------ HTTP handlers

\* GET /api/status
ApiStatus ==
    /\ Input
    /\ WithStateLock("_api_status")
    /\ event' = [Event("ApiStatus") EXCEPT !.response = StatusReply(Store)]
    /\ UNCHANGED <<store_vars, ws_clients, ws_vars, loop_vars>>

\* POST /api/command with a JSON body
ApiCommand(command, ok) ==
    /\ Input
    /\ event' = [Event("ApiCommand") EXCEPT
                    !.sendto = SendToDcs(command, ok),
                    !.response = CommandReply]
    /\ UNCHANGED <<store_vars, ws_clients, state_lock, ws_vars, loop_vars>>

\* POST /api/command with a body that is not JSON: request.json() raises
ApiCommandBadBody ==
    /\ Input
    /\ event' = [Event("ApiCommandBadBody") EXCEPT !.response = CommandError]
    /\ UNCHANGED <<store_vars, ws_clients, state_lock, ws_vars, loop_vars>>

\* ------------------------------------------------------------------------

Next ==
    \/ \E d \in Datagrams : UdpReceive(d)
    \/ \E c \in Clients : WsConnect(c)
    \/ \E c \in Clients : WsDisconnect(c)
    \/ \E c \in Clients, command \in Commands, ok \in BOOLEAN :
           WsCommand(c, command, ok)
    \/ \E c \in Clients, site_id \in InitSiteIds, ok \in BOOLEAN :
           WsInitSite(c, site_id, ok)
    \/ \E c \in Clients : WsGetState(c)
    \/ \E c \in Clients : WsOther(c)
    \/ \E c \in Clients, ok \in BOOLEAN : WsSendDone(c, ok)
    \/ BroadcastIdle
    \/ \E c \in Clients : BroadcastTick(c)
    \/ \E ok \in BOOLEAN, c \in Clients : BroadcastNext(ok, c)
    \/ \E ok \in BOOLEAN : BroadcastEnd(ok)
    \/ \E ok \in BOOLEAN : BroadcastRaise(ok)
    \/ ApiStatus
    \/ \E command \in Commands, ok \in BOOLEAN : ApiCommand(command, ok)
    \/ ApiCommandBadBody

Spec == Init /\ [][Next]_vars

\* ------------------------------------------------------------------------
\* Properties
\* ------------------------------------------------------------------------

\* the datagram d decodes to a status message
IsStatus(d) == d.json = "object" /\ Get(d.obj, "type", "") = "status"

\* the sites of a status message
SitesOf(d) == Get(d.obj, "sites", EmptyDict)

\* d is a status message as the interface describes it: its sites are an
\* object and every site entry is an object
WellFormedStatus(d) ==
    /\ IsStatus(d)
    /\ SitesOf(d).t = "dict"
    /\ \A i \in DOMAIN SitesOf(d).v : SitesOf(d).v[i][2].t = "dict"

\* the record an entity must hold after an update that gave it the entry f:
\* the values of f, and the stated default for every field f omits
Expected(site_id, f) ==
    [site_id            |-> site_id,
     system_state       |-> IF "systemState" \in DOMAIN f THEN f.systemState ELSE 0,
     radar_mode         |-> IF "radarMode" \in DOMAIN f THEN f.radarMode ELSE 0,
     antenna_az         |-> IF "antennaAz" \in DOMAIN f THEN f.antennaAz ELSE 0,
     antenna_el         |-> IF "antennaEl" \in DOMAIN f THEN f.antennaEl ELSE 5,
     targets            |-> IF "targets" \in DOMAIN f THEN f.targets ELSE <<>>,
     tracked_target     |-> IF "tracked" \in DOMAIN f THEN f.tracked ELSE NONE,
     track_quality      |-> IF "trackQuality" \in DOMAIN f THEN f.trackQuality ELSE 0,
     missiles_ready     |-> IF "missilesReady" \in DOMAIN f THEN f.missilesReady ELSE 6,
     missiles_in_flight |-> IF "missilesInFlight" \in DOMAIN f
                            THEN f.missilesInFlight ELSE 0,
     engagement_auth    |-> IF "engAuth" \in DOMAIN f THEN f.engAuth ELSE FALSE,
     auto_engage        |-> IF "autoEng" \in DOMAIN f THEN f.autoEng ELSE FALSE]

\* C1: right after a status update was processed, every entity the update
\* names holds exactly the update's values for it, and the default for every
\* field the update omits: nothing of an earlier update of the entity is left.
\* (Updates whose sites are objects; an entry that is not an object is C8's.)
C1_LastWriteWins ==
    (event.op = "UdpReceive" /\ WellFormedStatus(event.data)) =>
        \A i \in DOMAIN SitesOf(event.data).v :
            LET site_id == SitesOf(event.data).v[i][1]
                f       == SitesOf(event.data).v[i][2].v
            IN  /\ Has(sites, site_id)
                /\ Lookup(sites, site_id) = Expected(site_id, f)

\* C1's case: the partial update of S1 was processed after the update that
\* had set every field of S1 (the only one that creates S2 with defaults)
C1_Witness ==
    /\ event.op = "UdpReceive"
    /\ event.data = DgStatus1
    /\ Has(sites, "S2")
    /\ Lookup(sites, "S2") = SAMSiteState("S2")
    /\ Lookup(sites, "S1").system_state = 2
    /\ Lookup(sites, "S1").missiles_ready = 6
    /\ Lookup(sites, "S1").targets = <<>>

\* C2: no step removes an identifier from the entity mapping
C2_EntitiesNeverRemoved == [][Keys(sites) \subseteq Keys(sites')]_vars

\* C2's case: a status update that omits every site was processed and the
\* identifiers created before, by a status update and by init_site, remain
C2_Witness ==
    /\ event.op = "UdpReceive"
    /\ event.data = DgStatusBare
    /\ Has(sites, "S1")
    /\ Has(sites, NONE)

\* shutdown then init, applied to the store st
ShutdownThenInit(st) == ProcessDcsData(ProcessDcsData(st, DgShutdown), DgInit)

\* C3: a step that processes init or shutdown sets the connection flag (true
\* for init, false for shutdown) and changes no other part of the store; and
\* from the store every step leaves, shutdown followed by init gives the same
\* store with the flag true
C3_InitShutdownFrame ==
    [][/\ ShutdownThenInit(Store)' = [Store EXCEPT !.dcs_connected = TRUE]'
       /\ \A d \in {DgInit, DgShutdown} :
            (event'.op = "UdpReceive" /\ event'.data = d) =>
                /\ dcs_connected' = (d = DgInit)
                /\ UNCHANGED <<mission_time, paused, world_objects, sites>>
      ]_vars

\* C3's case: a shutdown was processed on a store that holds a mission clock,
\* a pause flag, world objects and entities, and they are still there
C3_Witness ==
    /\ event.op = "UdpReceive"
    /\ event.data = DgShutdown
    /\ ~dcs_connected
    /\ mission_time = 43
    /\ paused
    /\ world_objects = <<"W1">>
    /\ Has(sites, "S1")

\* the payload of the snapshot the current tick took
SnapshotPayload == JsonDumps(BuildState(tick.store, "update"))

\* C4: within one tick, every client sent to is sent the same payload, and
\* it is the serialized snapshot taken when the tick started, whatever was
\* ingested or handled while the tick was suspended in a send
C4_SamePayload ==
    /\ \A c1 \in DOMAIN tick.sent, c2 \in DOMAIN tick.sent :
           tick.sent[c1] = tick.sent[c2]
    /\ \A c \in DOMAIN tick.sent : tick.sent[c] = SnapshotPayload
    /\ event.op = "BroadcastSend" => event.ws.msg = SnapshotPayload

\* C4's case: two clients were sent the payload in one tick and the store
\* was changed by a status datagram between the snapshot and the second send
C4_Witness ==
    /\ event.op = "BroadcastSend"
    /\ DOMAIN tick.sent = {1, 2}
    /\ mission_time # tick.store.mission_time
    /\ sites # tick.store.sites

\* C5: when a tick is over, every subscriber registered at its start was
\* sent to, those whose send did not fail received the payload, and no
\* subscriber whose send failed is left in the registry
C5_FailedSendIsolated ==
    bpc # "send" =>
        /\ tick.registry \subseteq tick.tried
        /\ tick.registry \ tick.failed \subseteq DOMAIN tick.sent
        /\ tick.failed \cap ws_clients = {}

\* the identifiers of a list, which has no duplicates
ListIds(l) == {l[i] : i \in DOMAIN l}

\* the identifiers of the sites of a status message
SiteIdsOf(d) == {SitesOf(d).v[i][1] : i \in DOMAIN SitesOf(d).v}

\* C6: the reply of the status query holds the connection flag, the mission
\* clock and the pause flag of the store and lists exactly the identifiers
\* of its entity records, each once; and the query after a status update
\* (time t, paused p, sites S) on the empty store replies true, t, p and the
\* identifiers of S
C6_StatusQuery ==
    /\ event.op = "ApiStatus" =>
           /\ event.response.dcsConnected = dcs_connected
           /\ event.response.missionTime = mission_time
           /\ event.response.paused = paused
           /\ ListIds(event.response.sites) = Keys(sites)
           /\ Len(event.response.sites) = Cardinality(Keys(sites))
    /\ event.op = "ApiStatus" =>
           \A d \in {x \in Datagrams : WellFormedStatus(x)} :
               LET r == StatusReply(ProcessDcsData(InitStore, d))
               IN  /\ r.dcsConnected = TRUE
                   /\ r.missionTime = Get(d.obj, "time", 0)
                   /\ r.paused = Get(d.obj, "paused", FALSE)
                   /\ ListIds(r.sites) = SiteIdsOf(d)

\* C6's case: the status query that follows the status update of the
\* example on the empty store, with the reply of the example
C6_Witness ==
    /\ event.op = "ApiStatus"
    /\ n_events = 2
    /\ event.response = [dcsConnected |-> TRUE, missionTime |-> 42,
                         paused |-> FALSE, sites |-> <<"S1">>]

\* the scalars of the status message d are in the store st
ScalarsIn(st, d) ==
    /\ st.dcs_connected
    /\ st.mission_time = Get(d.obj, "time", 0)
    /\ st.paused = Get(d.obj, "paused", FALSE)
    /\ st.world_objects = Get(d.obj, "worldObjects", <<>>)

\* in the store st, the entity record of every site the status message d
\* names is updated
SitesIn(st, d) ==
    /\ SitesOf(d).t = "dict"
    /\ \A i \in DOMAIN SitesOf(d).v :
           LET site_id == SitesOf(d).v[i][1]
               entry   == SitesOf(d).v[i][2]
           IN  /\ entry.t = "dict"
               /\ Has(st.sites, site_id)
               /\ Lookup(st.sites, site_id) = Expected(site_id, entry.v)

\* payloads that do not decode to a message: not JSON, or not a JSON object
Malformed == {DgInvalid, DgArray}

\* C7: a step that processes a payload that does not decode changes no part
\* of the store; the receiver then still takes the next datagram, and a
\* status update processed right after such a payload is applied in full
C7_MalformedIgnored ==
    [][/\ (event'.op = "UdpReceive" /\ event'.data \in Malformed) =>
            /\ UNCHANGED store_vars
            /\ ProcessDcsData(Store, event'.data) = Store
       /\ (event.op = "UdpReceive" /\ event.data \in Malformed) =>
            /\ n_events < MaxEvents => ENABLED UdpReceive(DgStatus1)
            /\ (event'.op = "UdpReceive" /\ WellFormedStatus(event'.data)) =>
                   (ScalarsIn(Store', event'.data) /\ SitesIn(Store', event'.data))
      ]_vars

\* C7's case: a payload that is not JSON was processed on a store that
\* holds data of an earlier status update, which it still holds, and the
\* run goes on
C7_Witness ==
    /\ event.op = "UdpReceive"
    /\ event.data = DgInvalid
    /\ dcs_connected
    /\ mission_time = 43
    /\ Has(sites, "S2")
    /\ n_events < MaxEvents

\* C8: a status update is all or nothing: a step that processes a status
\* datagram leaves its scalars in the store exactly if it leaves all its
\* sites updated, and one whose processing raises changes nothing
C8_AtomicStatus ==
    [][(event'.op = "UdpReceive" /\ IsStatus(event'.data)) =>
          /\ ScalarsIn(Store', event'.data) <=> SitesIn(Store', event'.data)
          /\ ~WellFormedStatus(event'.data) => UNCHANGED store_vars
      ]_vars

\* C9: the reply of the command endpoint says success exactly if the
\* datagram was sent
C9_CommandReplyReportsSend ==
    event.op = "ApiCommand" =>
        (event.response.success <=> event.sendto.ok)

\* C10: after a direct send (an ack or a state reply) to a subscriber has
\* failed, the subscriber is not in the registry
C10_DirectSendFailureUnregisters ==
    (event.op = "WsSendDone" /\ ~event.ws.ok) => event.ws.to \notin ws_clients

\* C11: in every state, where every activity is suspended at an await (a
\* send, a sleep or a receive), the state guard is free, and an activity
\* that needs the guard, such as the status query, is not blocked by it
C11_GuardFreeWhenSuspended ==
    /\ state_lock = "free"
    /\ (Alive /\ n_events < MaxEvents) => ENABLED ApiStatus

\* C11's case: the broadcast loop is suspended in a send of its tick, a
\* client handler is suspended in the send of a state reply, both after
\* their block under the guard, and ingestion has just merged a status
\* update under the guard
C11_Witness ==
    /\ bpc = "send"
    /\ \E c \in Clients : handler[c] = "state"
    /\ event.op = "UdpReceive"
    /\ IsStatus(event.data)
    /\ state_lock = "free"

\* the discriminator of a datagram; none when it does not decode to an object
TypeOf(d) == IF d.json = "object" THEN Get(d.obj, "type", "") ELSE ""

\* d is of type init, shutdown or status and is processed without an error
Processed(d) == TypeOf(d) \in {"init", "shutdown"} \/ WellFormedStatus(d)

\* C12: the connection flag is false at the start; a step that processes,
\* without an error, a datagram of type init, shutdown or status leaves it
\* true for init and status and false for shutdown; every other step leaves
\* it as it was
C12_FlagFollowsLastDatagram ==
    /\ ~dcs_connected
    /\ [][IF event'.op = "UdpReceive" /\ Processed(event'.data)
          THEN dcs_connected' = (TypeOf(event'.data) # "shutdown")
          ELSE UNCHANGED dcs_connected]_vars

\* d decodes to an object whose type is not init, shutdown or status
OtherType(d) ==
    d.json = "object" /\ TypeOf(d) \notin {"init", "shutdown", "status"}

C14_InitSiteFrame ==
    [][event'.op = "WsInitSite" =>
          LET command == event'.sendto.data
              site_id == command.siteId
          IN  /\ event'.sendto.called
              /\ command.cmd = "init_site"
              /\ Has(sites', site_id)
              /\ Keys(sites') = Keys(sites) \cup {site_id}
              /\ \A k \in Keys(sites) : Lookup(sites', k) = Lookup(sites, k)
              /\ ~Has(sites, site_id) =>
                     Lookup(sites', site_id) = Expected(site_id, <<>>)
              /\ Has(sites, site_id) => sites' = sites
              /\ UNCHANGED <<dcs_connected, mission_time, paused,
                             world_objects>>
      ]_vars

\* C14's case: init_site for S1 was handled when S1 had a record whose
\* fields a status update had set, and they are still set; S2, which the
\* same update created, is there too
C14_Witness ==
    /\ event.op = "WsInitSite"
    /\ event.sendto.data.siteId = "S1"
    /\ Has(sites, "S1")
    /\ Lookup(sites, "S1").system_state = 3
    /\ Lookup(sites, "S1").targets = <<"T1">>
    /\ Has(sites, "S2")
    /\ mission_time = 43

\* the name of a command object: its cmd member, null when it has none
CommandName(command) ==
    IF "cmd" \in DOMAIN command THEN command.cmd ELSE NONE

\* C15: a step that handles the command message of the subscriber c hands
\* one datagram with that very command object to the Command Sink and starts
\* one ack send, to c, that names the command; the step that ends that send
\* delivers this ack to c alone and leaves no further ack to send; neither
\* step changes the store or the registry, nor what is sent to any other
\* subscriber
C15_CommandForwardedAndAcked ==
    [][/\ \A c \in Clients, command \in Commands, ok \in BOOLEAN :
            WsCommand(c, command, ok) =>
                /\ event'.sendto = [called |-> TRUE, data |-> command,
                                    ok |-> ok]
                /\ event'.ws = NoWsSend
                /\ handler'[c] = "ack"
                /\ pending'[c] = [type |-> "ack",
                                  command |-> CommandName(command)]
                /\ \A b \in Clients \ {c} :
                       pending'[b] = pending[b] /\ handler'[b] = handler[b]
                /\ UNCHANGED <<store_vars, ws_clients, message>>
       /\ \A c \in Clients :
            (handler[c] = "ack" /\ handler'[c] # "ack") =>
                /\ event'.op = "WsSendDone"
                /\ event'.ws.to = c
                /\ event'.ws.msg = pending[c]
                /\ event'.ws.msg.type = "ack"
                /\ ~event'.sendto.called
                /\ handler'[c] = "recv"
                /\ pending'[c] = NoPayload
                /\ \A b \in Clients \ {c} : pending'[b] = pending[b]
                /\ UNCHANGED <<store_vars, ws_clients>>
       /\ event'.op = "BroadcastSend" => event'.ws.msg.type = "update"
      ]_vars

\* C15's case: the ack of the command launch was sent to subscriber 1 while
\* subscriber 2 was registered too and was sent nothing
C15_Witness ==
    /\ event.op = "WsSendDone"
    /\ event.ws = [to |-> 1, msg |-> [type |-> "ack", command |-> "launch"],
                   ok |-> TRUE]
    /\ ws_clients = {1, 2}
    /\ pending = [c \in Clients |-> NoPayload]

\* C16: while a tick is iterating over the registry (from its first send to
\* its last) no step changes the registry; the step that ends the iteration
\* removes exactly the subscribers whose send failed and leaves the loop
\* asleep until its next tick; the loop never ends
C16_RegistryStableDuringTick ==
    [][/\ (bpc = "send" /\ bpc' = "send") => ws_clients' = ws_clients
       /\ (bpc = "send" /\ bpc' # "send") =>
              /\ bpc' = "sleep"
              /\ ws_clients' = ws_clients \ dead_clients'
       /\ bpc' # "crashed"
      ]_vars

\* the update payload msg shows the content of the store st: its scalars,
\* its world objects and, in the order of the mapping, every entity record
\* under its identifier with every field
PayloadShows(msg, st) ==
    /\ msg.type = "update"
    /\ msg.dcsConnected = st.dcs_connected
    /\ msg.missionTime = st.mission_time
    /\ msg.paused = st.paused
    /\ msg.worldObjects = st.world_objects
    /\ Len(msg.sites) = Len(st.sites)
    /\ \A i \in DOMAIN st.sites :
           LET key  == st.sites[i][1]
               site == st.sites[i][2]
               out  == msg.sites[i][2]
           IN  /\ msg.sites[i][1] = (IF key = NONE THEN "null" ELSE key)
               /\ out.siteId = site.site_id
               /\ out.systemState = site.system_state
               /\ out.radarMode = site.radar_mode
               /\ out.antennaAz = site.antenna_az
               /\ out.antennaEl = site.antenna_el
               /\ out.targets = site.targets
               /\ out.tracked = site.tracked_target
               /\ out.trackQuality = site.track_quality
               /\ out.missilesReady = site.missiles_ready
               /\ out.missilesInFlight = site.missiles_in_flight
               /\ out.engAuth = site.engagement_auth
               /\ out.autoEng = site.auto_engage

\* C17: the step that starts a tick takes as its snapshot the store as it
\* is at that moment, which holds every datagram ingested before and none
\* ingested after, and serializes that; every send of the tick carries that
\* snapshot, which no step changes until the next tick takes its own.  The
\* ticks of the one loop follow each other, so a later tick carries the
\* store of a later moment, never an older one.
C17_TickCarriesCurrentStore ==
    [][/\ event'.op = "BroadcastTick" =>
              /\ tick'.store = Store'
              /\ Store' = Store
              /\ PayloadShows(message', Store')
       /\ event'.op # "BroadcastTick" =>
              /\ tick'.store = tick.store
              /\ message' = message
       /\ event'.op = "BroadcastSend" =>
              PayloadShows(event'.ws.msg, tick.store)
      ]_vars

\* C17's case: a second tick is sending; the first one failed on
\* subscriber 1 and pruned it, then a status update was ingested, and the
\* payload of the second tick shows the store with that update
C17_Witness ==
    /\ bpc = "send"
    /\ client = 2
    /\ 1 \notin ws_clients
    /\ handler[1] = "recv"
    /\ tick.store.mission_time = 42
    /\ message.missionTime = 42
    /\ Len(message.sites) = 1

\* the target lists of the entities of a store, and of a payload, in the
\* order of the mapping
TargetsOfStore(st) == [i \in DOMAIN st.sites |-> st.sites[i][2].targets]

TargetsOfPayload(msg) == [i \in DOMAIN msg.sites |-> msg.sites[i][2].targets]

\* C18: a step that changes the store (a datagram, init_site) changes
\* neither the snapshot of the tick under way, nor its serialized payload,
\* nor the serialized state reply a handler is about to send; and what a
\* tick or a handler then sends is that payload, with the target lists and
\* the world object list of the snapshot
C18_SnapshotIndependent ==
    [][/\ event'.op \in {"UdpReceive", "WsInitSite"} =>
              /\ message' = message
              /\ tick'.store = tick.store
              /\ \A c \in Clients : pending'[c] = pending[c]
       /\ event'.op = "BroadcastSend" =>
              /\ event'.ws.msg = message
              /\ event'.ws.msg.worldObjects = tick.store.world_objects
              /\ TargetsOfPayload(event'.ws.msg) = TargetsOfStore(tick.store)
       /\ event'.op = "WsSendDone" =>
              event'.ws.msg = pending[event'.ws.to]
      ]_vars

\* C18's case: while a tick is suspended in a send, a status update has
\* replaced the world object list and the target list of S1, and the
\* payload of the tick still holds the lists of the snapshot
C18_Witness ==
    /\ bpc = "send"
    /\ event.op = "UdpReceive"
    /\ world_objects = <<>>
    /\ message.worldObjects = <<"W1">>
    /\ Lookup(sites, "S1").targets = <<>>
    /\ TargetsOfPayload(message) = << <<"T1">>, <<>> >>

\* C19: every key of the entity mapping is a string identifier, not null,
\* and is the site_id of the record it maps to
C19_KeysAreSiteIds ==
    \A i \in DOMAIN sites :
        /\ sites[i][1] # NONE
        /\ sites[i][1] = sites[i][2].site_id

\* C20: a handle is added to the registry only by the step that accepts
\* its connection, and a connection is accepted once; so a handle that was
\* removed stays out of the registry, and no tick starts a send to it,
\* while its handler still takes its messages
C20_RegisteredOnlyAtAccept ==
    [][/\ \A c \in Clients :
            /\ (c \in ws_clients' /\ c \notin ws_clients) =>
                   /\ event'.op = "WsConnect"
                   /\ handler[c] = "new"
            /\ handler[c] # "new" => handler'[c] # "new"
            /\ (c \notin ws_clients /\ handler[c] # "new") =>
                   /\ c \notin ws_clients'
                   /\ (bpc' = "send" /\ client' = c) =>
                          (bpc = "send" /\ client = c /\ UNCHANGED tick)
            /\ (c \notin ws_clients /\ handler[c] = "recv"
                   /\ Alive /\ n_events < MaxEvents) =>
                   /\ ENABLED WsGetState(c)
                   /\ ENABLED WsInitSite(c, "S1", TRUE)
                   /\ ENABLED WsCommand(c, <<>>, TRUE)
      ]_vars

\* C20's case: subscriber 1 was pruned by a tick in which its send failed,
\* its connection is open and its command is being handled, and a later
\* tick is sending to subscriber 2 only
C20_Witness ==
    /\ 1 \notin ws_clients
    /\ handler[1] = "ack"
    /\ event.op = "BroadcastTick"
    /\ bpc = "send"
    /\ client = 2
    /\ tick.registry = {2}

====
